---------------------------- MODULE Spec2Model ----------------------------
(***************************************************************************)
(* Translation Resolution Engine of the react-portfolio repository:        *)
(* src/src/contexts/TranslationContext.jsx (TranslationProvider,           *)
(* useTranslation) and src/src/components/LanguageToggle.jsx.              *)
(*                                                                         *)
(* JavaScript values are tagged records [kind, val].  A string is the      *)
(* sequence of its characters, so that the regular expression              *)
(* /^[a-z]{2}$/, split('.'), trim() and String() are computed, not         *)
(* assumed.  An object is a function from property names (strings) to      *)
(* values.                                                                 *)
(***************************************************************************)
EXTENDS Integers, Sequences, FiniteSets, TLC

VARIABLES
    currentLanguage,      \* useState('en'), line 8
    translations,         \* useState({}), line 9
    fallbackTranslations, \* useState({}), line 10
    isLoading,            \* useState(true), line 11
    hasError,             \* useState(false), line 12
    storage,              \* localStorage item 'portfolio-language' (Null = absent)
    setItemCalls,         \* number of localStorage.setItem invocations
    lastSetItem,          \* argument of the last localStorage.setItem invocation
    lastSetItemOk,        \* whether the last localStorage.setItem returned normally
    removeItemCalls,      \* number of localStorage.removeItem invocations
    files,                \* content of ../translations/<language>.json, per language
    moduleCache,          \* languages whose module has been imported successfully
    navLang,              \* what reading navigator.language gives (Throws = it throws)
    initPc,               \* position of initializeLanguage
    initLocal,            \* locals of initializeLanguage that live across an await
    calls,                \* the setLanguage calls: position and argument of each
    lastOutcome,          \* how the last setLanguage call that returned ended
    lastT                 \* the last call of t: its argument and its result

vars == <<currentLanguage, translations, fallbackTranslations, isLoading, hasError,
          storage, setItemCalls, lastSetItem, lastSetItemOk, removeItemCalls,
          files, moduleCache, navLang, initPc, initLocal, calls, lastOutcome, lastT>>

-----------------------------------------------------------------------------
(* Bounds of the model *)

\* setLanguage calls issued in one session
MaxCalls == 2

\* setLanguage calls issued in one session in which t is observed
MaxCallsT == 1

\* segments of a dotted key passed to t
MaxDepth == 2

-----------------------------------------------------------------------------
(* JavaScript values *)

Str(s) == [kind |-> "string", val |-> s]
Num(n) == [kind |-> "number", val |-> n]
Obj(m) == [kind |-> "object", val |-> m]
Arr(s) == [kind |-> "array", val |-> s]
Null == [kind |-> "null", val |-> 0]
Undefined == [kind |-> "undefined", val |-> 0]
EmptyObject == Obj([s \in {} |-> Null])

\* Boolean(v): '', 0, null and undefined are falsy
IsTruthy(v) ==
    CASE v.kind = "string" -> v.val # <<>>
      [] v.kind = "number" -> v.val # 0
      [] v.kind = "object" -> TRUE
      [] v.kind = "array" -> TRUE
      [] OTHER -> FALSE

\* typeof v (typeof null is 'object')
Typeof(v) ==
    CASE v.kind = "string" -> "string"
      [] v.kind = "number" -> "number"
      [] v.kind = "object" -> "object"
      [] v.kind = "array" -> "object"
      [] v.kind = "null" -> "object"
      [] OTHER -> "undefined"

\* a || b
Or(a, b) == IF IsTruthy(a) THEN a ELSE b

\* Object.keys(v).length > 0, for an object or an array v
HasKeys(v) == v.kind \in {"object", "array"} /\ DOMAIN v.val # {}

LowerCase ==
    {"a", "b", "c", "d", "e", "f", "g", "h", "i", "j", "k", "l", "m",
     "n", "o", "p", "q", "r", "s", "t", "u", "v", "w", "x", "y", "z"}

UpperCase ==
    <<"A", "B", "C", "D", "E", "F", "G", "H", "I", "J", "K", "L", "M",
      "N", "O", "P", "Q", "R", "S", "T", "U", "V", "W", "X", "Y", "Z">>

WhiteSpace == {" ", "\t", "\n"}

Digits == <<"0", "1", "2", "3", "4", "5", "6", "7", "8", "9">>

RECURSIVE Decimal(_)
\* the decimal text of a natural number
Decimal(n) ==
    IF n < 10 THEN <<Digits[n + 1]>>
    ELSE Decimal(n \div 10) \o <<Digits[(n % 10) + 1]>>

RECURSIVE JoinComma(_)
\* the texts of an array's elements joined with ','
JoinComma(texts) ==
    IF texts = <<>> THEN <<>>
    ELSE IF Len(texts) = 1 THEN texts[1]
    ELSE texts[1] \o <<",">> \o JoinComma(Tail(texts))

RECURSIVE String(_)
\* String(v)
String(v) ==
    CASE v.kind = "string" -> v
      [] v.kind = "array" ->
            Str(JoinComma([i \in 1..Len(v.val) |->
                    IF v.val[i].kind \in {"null", "undefined"} THEN <<>>
                    ELSE String(v.val[i]).val]))
      [] v.kind = "number" ->
            Str(IF v.val < 0 THEN <<"-">> \o Decimal(0 - v.val) ELSE Decimal(v.val))
      [] v.kind = "null" -> Str(<<"n", "u", "l", "l">>)
      [] v.kind = "undefined" -> Str(<<"u", "n", "d", "e", "f", "i", "n", "e", "d">>)
      [] OTHER -> Str(<<"[", "o", "b", "j", "e", "c", "t", " ", "O", "b", "j", "e", "c", "t", "]">>)

RECURSIVE Split(_)
\* s.split('.') on the characters of s
Split(s) ==
    IF \A i \in 1..Len(s) : s[i] # "."
    THEN <<s>>
    ELSE LET i == CHOOSE j \in 1..Len(s) :
                      s[j] = "." /\ \A h \in 1..(j - 1) : s[h] # "."
         IN  <<SubSeq(s, 1, i - 1)>> \o Split(SubSeq(s, i + 1, Len(s)))

RECURSIVE TrimStart(_)
TrimStart(s) ==
    IF s # <<>> /\ Head(s) \in WhiteSpace THEN TrimStart(Tail(s)) ELSE s

RECURSIVE TrimEnd(_)
TrimEnd(s) ==
    IF s # <<>> /\ s[Len(s)] \in WhiteSpace
    THEN TrimEnd(SubSeq(s, 1, Len(s) - 1))
    ELSE s

\* s.trim()
Trim(s) == TrimEnd(TrimStart(s))

\* a validation whose regular expression ignores case, /^[a-z]{2}$/i
IsValidLanguageAnyCase(language) ==
    /\ IsTruthy(language)
    /\ Typeof(language) = "string"
    /\ Len(language.val) = 2
    /\ \A i \in 1..2 : language.val[i] \in LowerCase \/ \E j \in 1..26 : UpperCase[j] = language.val[i]

\* !language || typeof language !== 'string' || !/^[a-z]{2}$/.test(language), negated
IsValidLanguage(language) ==
    /\ IsTruthy(language)
    /\ Typeof(language) = "string"
    /\ Len(language.val) = 2
    /\ \A i \in 1..2 : language.val[i] \in LowerCase


LowerSeq ==
    <<"a", "b", "c", "d", "e", "f", "g", "h", "i", "j", "k", "l", "m",
      "n", "o", "p", "q", "r", "s", "t", "u", "v", "w", "x", "y", "z">>

\* s.toLowerCase()
ToLowerCase(s) ==
    [i \in 1..Len(s) |->
        IF \E j \in 1..26 : UpperCase[j] = s[i]
        THEN LowerSeq[CHOOSE j \in 1..26 : UpperCase[j] = s[i]]
        ELSE s[i]]

\* s.startsWith(p)
StartsWith(s, p) == Len(s) >= Len(p) /\ SubSeq(s, 1, Len(p)) = p

EN == <<"e", "n">>
ES == <<"e", "s">>
FR == <<"f", "r">>

-----------------------------------------------------------------------------
(* Translation files.  ../translations/en.json and es.json are data, not    *)
(* code; the catalogs below have the shape design.md gives (nested objects  *)
(* with string leaves) and the cases the resolver distinguishes: a key both *)
(* have (a.a), a blank es value (a.b), a non-string es leaf (b.a), a key es *)
(* lacks (b.b).                                                             *)

EnCatalog ==
    Obj((<<"a">> :> Obj((<<"a">> :> Str(<<"A", "A", "e", "n">>)) @@
                        (<<"b">> :> Str(<<"A", "B", "e", "n">>)))) @@
        (<<"b">> :> Obj((<<"a">> :> Str(<<"B", "A", "e", "n">>)) @@
                        (<<"b">> :> Str(<<"B", "B", "e", "n">>)))))

EsCatalog ==
    Obj((<<"a">> :> Obj((<<"a">> :> Str(<<"A", "A", "e", "s">>)) @@
                        (<<"b">> :> Str(<<" ">>)))) @@
        (<<"b">> :> Obj((<<"a">> :> Num(7)))))

\* a file that does not hold an object
MalformedFile == Str(<<"x">>)

\* files that hold null and an array
NullFile == Null
ArrayFile == Arr(<<Str(<<"x">>)>>)

\* the contents en.json and es.json may have when the loader is observed
EnFilesLoad == {EnCatalog, MalformedFile, NullFile}
EsFilesLoad == {EsCatalog, MalformedFile, NullFile, ArrayFile}

\* an en.json with a nested entry, a blank entry, a top-level entry and an
\* entry whose key is the text of a number
EnCatalogKeys ==
    Obj((<<"a">> :> Obj((<<"a">> :> Str(<<"A", "A", "e", "n">>)) @@
                        (<<"b">> :> Str(<<>>)))) @@
        (<<"b">> :> Str(<<"B", "e", "n">>)) @@
        (<<"1", "2">> :> Str(<<"T", "w", "e", "l", "v", "e">>)))

\* an es.json with a number, a whitespace-only entry and a missing entry
EsCatalogKeys ==
    Obj((<<"a">> :> Obj(<<"a">> :> Str(<<"A", "A", "e", "s">>))) @@
        (<<"b">> :> Obj((<<"a">> :> Num(7)) @@
                        (<<"b">> :> Str(<<" ">>)))))

\* the contents en.json and es.json may have
EnFiles == {EnCatalog}
EsFiles == {EsCatalog, EmptyObject}

\* the module namespace object an import resolves to
DefaultKey == <<"d", "e", "f", "a", "u", "l", "t">>
Namespace(content) == Obj(DefaultKey :> content)

\* a rejected import
Rejected == [kind |-> "rejected", val |-> 0]

\* import(`../translations/${language}.json`): a module that was imported
\* once is served from the module map; a file that does not exist is rejected;
\* any other import may fail.
ImportOutcomes(language) ==
    IF language \notin DOMAIN files THEN {Rejected}
    ELSE IF language \in moduleCache THEN {Namespace(files[language])}
    ELSE {Rejected, Namespace(files[language])}

\* the module map after an import of language ended with outcome
Imported(language, outcome) ==
    IF outcome = Rejected THEN moduleCache ELSE moduleCache \cup {language}

\* translationModule.default || translationModule
ModuleValue(module) == Or(module.val[DefaultKey], module)

\* lines 27 and 41 and 67: translations && typeof translations === 'object'
IsProperObject(v) == IsTruthy(v) /\ Typeof(v) = "object"

\* a try block without the validation of lines 27-29
LoadOkUnvalidated(outcome) == outcome # Rejected

\* whether the try block of a load returns (TRUE) or throws (FALSE)
LoadOk(outcome) == outcome # Rejected /\ IsProperObject(ModuleValue(outcome))

-----------------------------------------------------------------------------
(* The resolver *)

\* a lookup that does not descend into nested objects
TraverseTopLevelOnly(value, keys) ==
    IF keys # <<>> /\ IsTruthy(value) /\ Typeof(value) = "object"
       /\ Head(keys) \in DOMAIN value.val /\ Len(keys) = 1
    THEN value.val[Head(keys)]
    ELSE Null

\* k in value, for an object or an array, over the indices of the array and the
\* own keys of the object (inherited properties and length hold functions,
\* objects or numbers and never lead the traversal to a string)
In(k, value) ==
    IF value.kind = "array"
    THEN \E i \in 1..Len(value.val) : k = Decimal(i - 1)
    ELSE k \in DOMAIN value.val

\* value[k], for k in value
Get(value, k) ==
    IF value.kind = "array"
    THEN value.val[CHOOSE i \in 1..Len(value.val) : k = Decimal(i - 1)]
    ELSE value.val[k]

RECURSIVE Traverse(_, _)
\* the for loop of lines 212-219 and 230-237
Traverse(value, keys) ==
    IF keys = <<>> THEN value
    ELSE IF IsTruthy(value) /\ Typeof(value) = "object" /\ In(Head(keys), value)
         THEN Traverse(Get(value, Head(keys)), Tail(keys))
         ELSE Null

\* a test of the value's type that does not look at its text
IsTextUntrimmed(value) == Typeof(value) = "string"

\* typeof value === 'string' && value.trim() !== ''
IsText(value) == Typeof(value) = "string" /\ Trim(value.val) # <<>>

\* a resolver that never consults the fallback catalog
ResolveWithoutFallback(key, language, catalog, fallbackCatalog) ==
    IF ~IsTruthy(key) \/ Typeof(key) # "string"
    THEN String(Or(key, Str(<<>>)))
    ELSE IF IsText(Traverse(catalog, Split(key.val)))
         THEN Traverse(catalog, Split(key.val))
         ELSE key

\* a resolver that hands an invalid key back as it is
ResolveInvalidKeyAsIs(key, language, catalog, fallbackCatalog) ==
    IF ~IsTruthy(key) \/ Typeof(key) # "string"
    THEN key
    ELSE LET keys == Split(key.val)
             value == Traverse(catalog, keys)
             fallbackValue == Traverse(fallbackCatalog, keys)
         IN  IF IsText(value) THEN value
             ELSE IF /\ language # Str(EN)
                     /\ IsTruthy(fallbackCatalog)
                     /\ HasKeys(fallbackCatalog)
                     /\ IsText(fallbackValue)
                  THEN fallbackValue
                  ELSE key

\* a resolver that consults the fallback catalog whatever language is active
ResolveFallbackAlways(key, language, catalog, fallbackCatalog) ==
    IF ~IsTruthy(key) \/ Typeof(key) # "string"
    THEN String(Or(key, Str(<<>>)))
    ELSE LET keys == Split(key.val)
             value == Traverse(catalog, keys)
             fallbackValue == Traverse(fallbackCatalog, keys)
         IN  IF IsText(value) THEN value
             ELSE IF /\ IsTruthy(fallbackCatalog)
                     /\ HasKeys(fallbackCatalog)
                     /\ IsText(fallbackValue)
                  THEN fallbackValue
                  ELSE key

\* t(key) as it would run with the given state
Resolve(key, language, catalog, fallbackCatalog) ==
    IF ~IsTruthy(key) \/ Typeof(key) # "string"
    THEN String(Or(key, Str(<<>>)))
    ELSE LET keys == Split(key.val)
             value == Traverse(catalog, keys)
             fallbackValue == Traverse(fallbackCatalog, keys)
         IN  IF IsText(value) THEN value
             ELSE IF /\ language # Str(EN)
                     /\ IsTruthy(fallbackCatalog)
                     /\ HasKeys(fallbackCatalog)
                     /\ IsText(fallbackValue)
                  THEN fallbackValue
                  ELSE key

\* t(key), lines 202-248
t(key) == Resolve(key, currentLanguage, translations, fallbackTranslations)

\* a fallback implementation that returns the empty string
FallbackTBlank(key) == Str(<<>>)

\* the fallback implementation of useTranslation outside a provider
FallbackT(key) == String(Or(key, Str(<<>>)))

-----------------------------------------------------------------------------
(* Inputs *)

\* arguments setLanguage is called with
LanguageArgs ==
    {Str(EN), Str(ES), Str(FR), Str(<<"E", "N">>), Str(<<"e", "s", "p">>), Str(<<>>), Null}

\* what localStorage holds when the session starts
StoredValues == {Null, Str(ES), Str(FR), Str(<<"x", "y", "z">>)}

\* a getter that throws
Throws == [kind |-> "throws", val |-> 0]

\* what navigator.language || navigator.userLanguage || navigator.browserLanguage gives
NavValues == {Throws, Str(<<"e", "s", "-", "M", "X">>), Str(<<"e", "n", "-", "U", "S">>)}

Segments == {<<"a">>, <<"b">>}

RECURSIVE Join(_)
\* segs.join('.')
Join(segs) ==
    IF Len(segs) = 1 THEN segs[1]
    ELSE segs[1] \o <<".">> \o Join(Tail(segs))

\* arguments t is called with: dotted keys and values that are not strings
KeyArgs ==
    {Str(Join(segs)) : segs \in UNION {[1..d -> Segments] : d \in 1..MaxDepth}}
        \cup {Str(<<>>), Null, Undefined, Num(0), Num(12)}

-----------------------------------------------------------------------------
(* Initial state: lines 8-12, before the effect of line 100 has run *)

NoCall == [pc |-> "idle", language |-> Null]

\* the state of a new provider in an environment drawn from the given sets
InitWith(storedValues, navValues, enFiles, esFiles) ==
    /\ currentLanguage = Str(EN)
    /\ translations = EmptyObject
    /\ fallbackTranslations = EmptyObject
    /\ isLoading = TRUE
    /\ hasError = FALSE
    /\ storage \in storedValues
    /\ setItemCalls = 0
    /\ lastSetItem = Null
    /\ lastSetItemOk = TRUE
    /\ removeItemCalls = 0
    /\ files \in [{EN, ES} -> enFiles \cup esFiles]
    /\ files[EN] \in enFiles
    /\ files[ES] \in esFiles
    /\ moduleCache = {}
    /\ navLang \in navValues
    /\ initPc = "mount"
    /\ initLocal = [fallbackData |-> Null, savedLanguage |-> Null, initialLanguage |-> Null]
    /\ calls = [c \in 1..MaxCalls |-> NoCall]
    /\ lastOutcome = "none"
    /\ lastT = [called |-> FALSE, key |-> Undefined, result |-> Undefined]

Init == InitWith(StoredValues, NavValues, EnFiles, EsFiles)

\* the sessions in which t is observed
InitT ==
    InitWith({Null, Str(FR)},
             {Str(<<"e", "s", "-", "M", "X">>), Str(<<"e", "n", "-", "U", "S">>)},
             EnFiles, EsFiles)

\* what localStorage holds when a session starts in which detection is observed:
\* nothing, a supported language, a language that has no file, and values
\* that are not two lower-case letters
StoredValuesDetect ==
    {Null, Str(EN), Str(ES), Str(FR), Str(<<"E", "S">>), Str(<<>>),
     Str(<<"i", "n", "v", "a", "l", "i", "d", "-", "l", "a", "n", "g">>)}

\* what the navigator gives in those sessions; Undefined is a navigator with
\* none of the three properties
NavValuesDetect ==
    {Throws, Undefined,
     Str(<<"e", "s", "-", "E", "S">>), Str(<<"e", "s", "-", "M", "X">>),
     Str(<<"E", "S">>), Str(<<"e", "n", "-", "U", "S">>),
     Str(<<"f", "r", "-", "F", "R">>), Str(<<"e">>)}

\* the sessions in which detection is observed
InitDetectEnv == InitWith(StoredValuesDetect, NavValuesDetect, EnFiles, EsFiles)

\* the sessions in which every collaborator can fail: an invalid stored
\* preference whose removal may throw, a navigator that may throw, files that
\* may be malformed or fail to import
InitTotal ==
    InitWith({Str(<<"x", "y", "z">>)},
             {Throws, Str(<<"e", "s", "-", "M", "X">>)},
             {EnCatalog, MalformedFile}, {EsCatalog, ArrayFile})

\* the sessions in which the loader is observed
InitLoadEnv ==
    InitWith({Null},
             {Str(<<"e", "s", "-", "M", "X">>), Str(<<"e", "n", "-", "U", "S">>)},
             EnFilesLoad, EsFilesLoad)

-----------------------------------------------------------------------------
(* Preference store *)

\* a getStoredLanguage whose catch block returns 'en'
getStoredLanguageDefaulting(ok) == IF ok THEN storage ELSE Str(EN)

\* getStoredLanguage, lines 80-87: ok is whether localStorage.getItem returns
getStoredLanguage(ok) == IF ok THEN storage ELSE Null

\* a write of the language of the render the handler closed over
setStoredLanguageStale(language, ok) ==
    /\ storage' = IF ok THEN currentLanguage ELSE storage
    /\ setItemCalls' = setItemCalls + 1
    /\ lastSetItem' = currentLanguage
    /\ lastSetItemOk' = ok

\* setStoredLanguage, lines 89-97: ok is whether localStorage.setItem returns;
\* the result is what the function returns, and nothing is thrown
setStoredLanguage(language, ok) ==
    /\ storage' = IF ok THEN language ELSE storage
    /\ setItemCalls' = setItemCalls + 1
    /\ lastSetItem' = language
    /\ lastSetItemOk' = ok

-----------------------------------------------------------------------------
(* Catalog loader *)

\* lines 18-21 of loadTranslations: the language that is imported
LoadLanguage(language) == IF IsValidLanguage(language) THEN language ELSE Str(EN)

\* a loader without the retry of lines 36-51
RetriesNothing(language) == FALSE

\* line 36: whether the catch block of loadTranslations tries en.json
RetriesEnglish(language) == LoadLanguage(language) # Str(EN)

-----------------------------------------------------------------------------
(* initializeLanguage, lines 100-166 *)

\* lines 102-107: the effect starts and awaits import('../translations/en.json')
InitializeLanguage ==
    /\ initPc = "mount"
    /\ isLoading' = TRUE
    /\ hasError' = FALSE
    /\ initPc' = "loadFallback"
    /\ UNCHANGED <<currentLanguage, translations, fallbackTranslations, storage,
                   setItemCalls, lastSetItem, lastSetItemOk, removeItemCalls, files,
                   moduleCache, navLang, initLocal, calls, lastOutcome, lastT>>

\* a validation that keeps a saved 'es' and nothing else
ValidatedSavedLanguageSpanishOnly(savedLanguage) ==
    IF savedLanguage = Str(ES) THEN savedLanguage ELSE Null

\* lines 114-125: the saved language that passes validation, or null
ValidatedSavedLanguage(savedLanguage) ==
    IF IsValidLanguage(savedLanguage) THEN savedLanguage ELSE Null

\* line 117: whether the saved preference is cleared
ClearsSaved(savedLanguage) == ~IsValidLanguage(savedLanguage) /\ IsTruthy(savedLanguage)

\* lines 128-136 without toLowerCase()
BrowserLanguageCaseSensitive(nav) ==
    IF nav # Throws /\ IsTruthy(nav) /\ Typeof(nav) = "string"
    THEN IF StartsWith(nav.val, ES) THEN Str(ES) ELSE Str(EN)
    ELSE Str(EN)

\* lines 128-136
BrowserLanguage(nav) ==
    IF nav # Throws /\ IsTruthy(nav) /\ Typeof(nav) = "string"
    THEN IF StartsWith(ToLowerCase(nav.val), ES) THEN Str(ES) ELSE Str(EN)
    ELSE Str(EN)

\* line 139 with its operands in another order: browserLanguage || saved || 'en'
InitialLanguageBrowserFirst(savedLanguage, nav) ==
    Or(Or(BrowserLanguage(nav), ValidatedSavedLanguage(savedLanguage)), Str(EN))

\* line 139
InitialLanguage(savedLanguage, nav) ==
    Or(Or(ValidatedSavedLanguage(savedLanguage), BrowserLanguage(nav)), Str(EN))

\* an initialization that keeps the fallback data in its local variable and
\* never sets the fallback catalog of the state
InitDetectWithoutSet ==
    /\ initPc = "loadFallback"
    /\ \E outcome \in ImportOutcomes(EN), readOk \in BOOLEAN, removeOk \in BOOLEAN :
          LET fallbackData == IF LoadOk(outcome) THEN ModuleValue(outcome) ELSE EmptyObject
              savedLanguage == getStoredLanguage(readOk)
              initialLanguage == InitialLanguage(savedLanguage, navLang)
          IN  /\ moduleCache' = Imported(EN, outcome)
              /\ hasError' = (hasError \/ ~LoadOk(outcome))
              /\ IF ClearsSaved(savedLanguage)
                 THEN /\ removeItemCalls' = removeItemCalls + 1
                      /\ storage' = IF removeOk THEN Null ELSE storage
                 ELSE UNCHANGED <<removeItemCalls, storage>>
              /\ initLocal' = [fallbackData |-> fallbackData,
                               savedLanguage |-> savedLanguage,
                               initialLanguage |-> initialLanguage]
    /\ initPc' = "load"
    /\ UNCHANGED <<currentLanguage, translations, fallbackTranslations, isLoading,
                   setItemCalls, lastSetItem, lastSetItemOk, files, navLang, calls,
                   lastOutcome, lastT>>

\* lines 61-77 and 108-142: en.json is imported or not, the fallback catalog is
\* set, the initial language is detected and its import is started
InitDetect ==
    /\ initPc = "loadFallback"
    /\ \E outcome \in ImportOutcomes(EN), readOk \in BOOLEAN, removeOk \in BOOLEAN :
          LET fallbackData == IF LoadOk(outcome) THEN ModuleValue(outcome) ELSE EmptyObject
              savedLanguage == getStoredLanguage(readOk)
              initialLanguage == InitialLanguage(savedLanguage, navLang)
          IN  /\ moduleCache' = Imported(EN, outcome)
              /\ hasError' = (hasError \/ ~LoadOk(outcome))
              /\ fallbackTranslations' = fallbackData
              /\ IF ClearsSaved(savedLanguage)
                 THEN /\ removeItemCalls' = removeItemCalls + 1
                      /\ storage' = IF removeOk THEN Null ELSE storage
                 ELSE UNCHANGED <<removeItemCalls, storage>>
              /\ initLocal' = [fallbackData |-> fallbackData,
                               savedLanguage |-> savedLanguage,
                               initialLanguage |-> initialLanguage]
    /\ initPc' = "load"
    /\ UNCHANGED <<currentLanguage, translations, isLoading, setItemCalls, lastSetItem,
                   lastSetItemOk, files, navLang, calls, lastOutcome, lastT>>

\* a commit of initializeLanguage that sets the language and not the catalog
InitCommitLanguageOnly(translationData) ==
    /\ IF ~IsTruthy(translationData) \/ Typeof(translationData) # "object"
       THEN currentLanguage' = Str(EN)
       ELSE currentLanguage' = initLocal.initialLanguage
    /\ UNCHANGED translations
    /\ isLoading' = FALSE
    /\ initPc' = "done"

\* a commit of initializeLanguage that ends the loading phase only when it has
\* a catalog with entries
InitCommitLoadingUntilCatalog(translationData) ==
    /\ IF ~IsTruthy(translationData) \/ Typeof(translationData) # "object"
       THEN /\ currentLanguage' = Str(EN)
            /\ translations' = initLocal.fallbackData
       ELSE /\ currentLanguage' = initLocal.initialLanguage
            /\ translations' = translationData
    /\ isLoading' = ~HasKeys(translationData)
    /\ initPc' = "done"

\* lines 144-162: the commit of initializeLanguage and its finally block
InitCommit(translationData) ==
    /\ IF ~IsTruthy(translationData) \/ Typeof(translationData) # "object"
       THEN /\ currentLanguage' = Str(EN)
            /\ translations' = initLocal.fallbackData
       ELSE /\ currentLanguage' = initLocal.initialLanguage
            /\ translations' = translationData
    /\ isLoading' = FALSE
    /\ initPc' = "done"

\* lines 23-36 and 142: the import of the initial language's file settles
InitLoaded ==
    /\ initPc = "load"
    /\ \E outcome \in ImportOutcomes(LoadLanguage(initLocal.initialLanguage).val) :
          /\ moduleCache' = Imported(LoadLanguage(initLocal.initialLanguage).val, outcome)
          /\ IF LoadOk(outcome)
             THEN InitCommit(ModuleValue(outcome)) /\ UNCHANGED hasError
             ELSE IF RetriesEnglish(initLocal.initialLanguage)
                  THEN /\ initPc' = "retryEnglish"
                       /\ UNCHANGED <<currentLanguage, translations, isLoading, hasError>>
                  ELSE InitCommit(EmptyObject) /\ hasError' = TRUE
    /\ UNCHANGED <<fallbackTranslations, storage, setItemCalls, lastSetItem, lastSetItemOk,
                   removeItemCalls, files, navLang, initLocal, calls, lastOutcome, lastT>>

\* lines 37-51 and 142: the import of en.json in the catch block settles
InitRetried ==
    /\ initPc = "retryEnglish"
    /\ \E outcome \in ImportOutcomes(EN) :
          /\ moduleCache' = Imported(EN, outcome)
          /\ IF LoadOk(outcome)
             THEN InitCommit(ModuleValue(outcome)) /\ UNCHANGED hasError
             ELSE InitCommit(EmptyObject) /\ hasError' = TRUE
    /\ UNCHANGED <<fallbackTranslations, storage, setItemCalls, lastSetItem, lastSetItemOk,
                   removeItemCalls, files, navLang, initLocal, calls, lastOutcome, lastT>>

-----------------------------------------------------------------------------
(* setLanguage, lines 169-199 *)

\* the calls whose load is in flight
InFlight == {c \in 1..MaxCalls : calls[c].pc \in {"load", "retryEnglish"}}

\* lines 172-175: an argument that fails validation is rejected
SetLanguageRejected(language) ==
    /\ initPc # "mount"
    /\ ~IsValidLanguage(language)
    /\ lastOutcome' = "rejected"
    /\ UNCHANGED <<currentLanguage, translations, fallbackTranslations, isLoading,
                   hasError, storage, setItemCalls, lastSetItem, lastSetItemOk,
                   removeItemCalls, files, moduleCache, navLang, initPc, initLocal,
                   calls, lastT>>

\* a setLanguage that cancels the loads still in flight when it starts its own
SetLanguageStartCancelling(language, limit) ==
    /\ initPc # "mount"
    /\ IsValidLanguage(language)
    /\ \E c \in 1..limit :
          /\ calls[c].pc = "idle"
          /\ \A d \in 1..(c - 1) : calls[d].pc # "idle"
          /\ calls' = [d \in 1..MaxCalls |->
                          IF d = c THEN [pc |-> "load", language |-> language]
                          ELSE IF calls[d].pc \in {"load", "retryEnglish"}
                               THEN [pc |-> "done", language |-> Null]
                               ELSE calls[d]]
    /\ UNCHANGED <<currentLanguage, translations, fallbackTranslations, isLoading,
                   hasError, storage, setItemCalls, lastSetItem, lastSetItemOk,
                   removeItemCalls, files, moduleCache, navLang, initPc, initLocal,
                   lastOutcome, lastT>>

\* lines 172-178 and 18-23: a valid argument starts the import of its file.
\* Consumers can call setLanguage as soon as the provider has mounted, also
\* while initializeLanguage is still loading; limit bounds the calls issued.
SetLanguageStart(language, limit) ==
    /\ initPc # "mount"
    /\ IsValidLanguage(language)
    /\ \E c \in 1..limit :
          /\ calls[c].pc = "idle"
          /\ \A d \in 1..(c - 1) : calls[d].pc # "idle"
          /\ calls' = [calls EXCEPT ![c] = [pc |-> "load", language |-> language]]
    /\ UNCHANGED <<currentLanguage, translations, fallbackTranslations, isLoading,
                   hasError, storage, setItemCalls, lastSetItem, lastSetItemOk,
                   removeItemCalls, files, moduleCache, navLang, initPc, initLocal,
                   lastOutcome, lastT>>

\* lines 181-183: whether the loaded data is committed
Commits(translationData) == IsTruthy(translationData) /\ HasKeys(translationData)

\* a commit that sets the language and forgets the catalog
SetLanguageCommitLanguageOnly(language, translationData, writeOk) ==
    IF Commits(translationData)
    THEN /\ currentLanguage' = language
         /\ setStoredLanguage(language, writeOk)
         /\ lastOutcome' = "committed"
         /\ UNCHANGED translations
    ELSE /\ lastOutcome' = "aborted"
         /\ UNCHANGED <<currentLanguage, translations, storage, setItemCalls,
                        lastSetItem, lastSetItemOk>>

\* a commit that persists first and gives up when the write throws
SetLanguageCommitAfterWrite(language, translationData, writeOk) ==
    IF Commits(translationData)
    THEN /\ setStoredLanguage(language, writeOk)
         /\ IF writeOk
            THEN /\ currentLanguage' = language
                 /\ translations' = translationData
                 /\ lastOutcome' = "committed"
            ELSE /\ lastOutcome' = "aborted"
                 /\ UNCHANGED <<currentLanguage, translations>>
    ELSE /\ lastOutcome' = "aborted"
         /\ UNCHANGED <<currentLanguage, translations, storage, setItemCalls,
                        lastSetItem, lastSetItemOk>>

\* a commit that takes a request for the active language as a switch back to en
SetLanguageCommitTogglesBack(language, translationData, writeOk) ==
    IF Commits(translationData)
    THEN /\ currentLanguage' = IF language = currentLanguage THEN Str(EN) ELSE language
         /\ translations' = translationData
         /\ setStoredLanguage(language, writeOk)
         /\ lastOutcome' = "committed"
    ELSE /\ lastOutcome' = "aborted"
         /\ UNCHANGED <<currentLanguage, translations, storage, setItemCalls,
                        lastSetItem, lastSetItemOk>>

\* a setLanguage that stores the requested language before it looks at the
\* loaded data
SetLanguageCommitWriteFirst(language, translationData, writeOk) ==
    /\ setStoredLanguage(language, writeOk)
    /\ IF Commits(translationData)
       THEN /\ currentLanguage' = language
            /\ translations' = translationData
            /\ lastOutcome' = "committed"
       ELSE /\ lastOutcome' = "aborted"
            /\ UNCHANGED <<currentLanguage, translations>>

\* a commit that only checks that the loader returned something
SetLanguageCommitAnyCatalog(language, translationData, writeOk) ==
    IF IsTruthy(translationData)
    THEN /\ currentLanguage' = language
         /\ translations' = translationData
         /\ setStoredLanguage(language, writeOk)
         /\ lastOutcome' = "committed"
    ELSE /\ lastOutcome' = "aborted"
         /\ UNCHANGED <<currentLanguage, translations, storage, setItemCalls,
                        lastSetItem, lastSetItemOk>>

\* lines 180-193: the commit of setLanguage, or its refusal; writeOk is whether
\* localStorage.setItem returns
SetLanguageCommit(language, translationData, writeOk) ==
    IF Commits(translationData)
    THEN /\ currentLanguage' = language
         /\ translations' = translationData
         /\ setStoredLanguage(language, writeOk)
         /\ lastOutcome' = "committed"
    ELSE /\ lastOutcome' = "aborted"
         /\ UNCHANGED <<currentLanguage, translations, storage, setItemCalls,
                        lastSetItem, lastSetItemOk>>

Settled == [pc |-> "done", language |-> Null]

\* a setLanguage whose successful load clears the error flag
SetLanguageLoadedClearing(c) ==
    /\ calls[c].pc = "load"
    /\ \E outcome \in ImportOutcomes(LoadLanguage(calls[c].language).val),
          writeOk \in BOOLEAN :
          /\ moduleCache' = Imported(LoadLanguage(calls[c].language).val, outcome)
          /\ IF LoadOk(outcome)
             THEN /\ SetLanguageCommit(calls[c].language, ModuleValue(outcome), writeOk)
                  /\ calls' = [calls EXCEPT ![c] = Settled]
                  /\ hasError' = FALSE
             ELSE IF RetriesEnglish(calls[c].language)
                  THEN /\ calls' = [calls EXCEPT ![c].pc = "retryEnglish"]
                       /\ UNCHANGED <<currentLanguage, translations, storage, setItemCalls,
                                      lastSetItem, lastSetItemOk, hasError, lastOutcome>>
                  ELSE /\ SetLanguageCommit(calls[c].language, EmptyObject, writeOk)
                       /\ calls' = [calls EXCEPT ![c] = Settled]
                       /\ hasError' = TRUE
    /\ UNCHANGED <<fallbackTranslations, isLoading, removeItemCalls, files, navLang,
                   initPc, initLocal, lastT>>

\* lines 23-36 and 178-193: the import of the requested language's file settles
SetLanguageLoaded(c) ==
    /\ calls[c].pc = "load"
    /\ \E outcome \in ImportOutcomes(LoadLanguage(calls[c].language).val),
          writeOk \in BOOLEAN :
          /\ moduleCache' = Imported(LoadLanguage(calls[c].language).val, outcome)
          /\ IF LoadOk(outcome)
             THEN /\ SetLanguageCommit(calls[c].language, ModuleValue(outcome), writeOk)
                  /\ calls' = [calls EXCEPT ![c] = Settled]
                  /\ UNCHANGED hasError
             ELSE IF RetriesEnglish(calls[c].language)
                  THEN /\ calls' = [calls EXCEPT ![c].pc = "retryEnglish"]
                       /\ UNCHANGED <<currentLanguage, translations, storage, setItemCalls,
                                      lastSetItem, lastSetItemOk, hasError, lastOutcome>>
                  ELSE /\ SetLanguageCommit(calls[c].language, EmptyObject, writeOk)
                       /\ calls' = [calls EXCEPT ![c] = Settled]
                       /\ hasError' = TRUE
    /\ UNCHANGED <<fallbackTranslations, isLoading, removeItemCalls, files, navLang,
                   initPc, initLocal, lastT>>

\* lines 37-51 and 178-193: the import of en.json in the catch block settles
SetLanguageRetried(c) ==
    /\ calls[c].pc = "retryEnglish"
    /\ \E outcome \in ImportOutcomes(EN), writeOk \in BOOLEAN :
          /\ moduleCache' = Imported(EN, outcome)
          /\ IF LoadOk(outcome)
             THEN /\ SetLanguageCommit(calls[c].language, ModuleValue(outcome), writeOk)
                  /\ UNCHANGED hasError
             ELSE /\ SetLanguageCommit(calls[c].language, EmptyObject, writeOk)
                  /\ hasError' = TRUE
    /\ calls' = [calls EXCEPT ![c] = Settled]
    /\ UNCHANGED <<fallbackTranslations, isLoading, removeItemCalls, files, navLang,
                   initPc, initLocal, lastT>>

-----------------------------------------------------------------------------
(* A consumer renders: it calls t with the state of the current render *)

T(key) ==
    /\ lastT' = [called |-> TRUE, key |-> key, result |-> t(key)]
    /\ UNCHANGED <<currentLanguage, translations, fallbackTranslations, isLoading,
                   hasError, storage, setItemCalls, lastSetItem, lastSetItemOk,
                   removeItemCalls, files, moduleCache, navLang, initPc, initLocal,
                   calls, lastOutcome>>

-----------------------------------------------------------------------------
(* useTranslation outside a TranslationProvider, lines 264-281: no provider is
   mounted, and the consumer gets the fallback implementation *)

\* line 272
FallbackCurrentLanguage == Str(EN)

\* lines 276-279: the consumer calls the fallback t
FallbackTCall(key) ==
    /\ lastT' = [called |-> TRUE, key |-> key, result |-> FallbackT(key)]
    /\ UNCHANGED <<currentLanguage, translations, fallbackTranslations, isLoading,
                   hasError, storage, setItemCalls, lastSetItem, lastSetItemOk,
                   removeItemCalls, files, moduleCache, navLang, initPc, initLocal,
                   calls, lastOutcome>>

\* lines 273-275: the consumer calls the fallback setLanguage
FallbackSetLanguage(language) ==
    /\ lastOutcome' = "ignored"
    /\ UNCHANGED <<currentLanguage, translations, fallbackTranslations, isLoading,
                   hasError, storage, setItemCalls, lastSetItem, lastSetItemOk,
                   removeItemCalls, files, moduleCache, navLang, initPc, initLocal,
                   calls, lastT>>

NextOutside ==
    \/ \E key \in KeyArgs : FallbackTCall(key)
    \/ \E language \in LanguageArgs : FallbackSetLanguage(language)

SpecOutside == Init /\ [][NextOutside]_vars

-----------------------------------------------------------------------------

Next ==
    \/ InitializeLanguage
    \/ InitDetect
    \/ InitLoaded
    \/ InitRetried
    \/ \E language \in LanguageArgs : SetLanguageRejected(language)
    \/ \E language \in LanguageArgs : SetLanguageStart(language, MaxCalls)
    \/ \E c \in 1..MaxCalls : SetLanguageLoaded(c)
    \/ \E c \in 1..MaxCalls : SetLanguageRetried(c)

Spec == Init /\ [][Next]_vars

\* the engine with a consumer that calls t
NextT ==
    \/ InitializeLanguage
    \/ InitDetect
    \/ InitLoaded
    \/ InitRetried
    \/ \E language \in LanguageArgs : SetLanguageStart(language, MaxCallsT)
    \/ \E c \in 1..MaxCalls : SetLanguageLoaded(c)
    \/ \E c \in 1..MaxCalls : SetLanguageRetried(c)
    \/ \E key \in KeyArgs : T(key)

SpecT == InitT /\ [][NextT]_vars

\* the engine with MaxCallsT setLanguage calls, every import settling in the end
NextLive ==
    \/ InitializeLanguage
    \/ InitDetect
    \/ InitLoaded
    \/ InitRetried
    \/ \E language \in LanguageArgs : SetLanguageRejected(language)
    \/ \E language \in LanguageArgs : SetLanguageStart(language, MaxCallsT)
    \/ \E c \in 1..MaxCalls : SetLanguageLoaded(c)
    \/ \E c \in 1..MaxCalls : SetLanguageRetried(c)

\* the effect runs after mount, and a dynamic import resolves or rejects
Fairness ==
    /\ WF_vars(InitializeLanguage)
    /\ WF_vars(InitDetect)
    /\ WF_vars(InitLoaded)
    /\ WF_vars(InitRetried)
    /\ \A c \in 1..MaxCalls : WF_vars(SetLanguageLoaded(c))
    /\ \A c \in 1..MaxCalls : WF_vars(SetLanguageRetried(c))

FairSpec == InitT /\ [][NextLive]_vars /\ Fairness

\* the engine in the environments of InitDetectEnv, with MaxCallsT setLanguage
\* calls, every import settling in the end
NextDetect ==
    \/ InitializeLanguage
    \/ InitDetect
    \/ InitLoaded
    \/ InitRetried
    \/ \E language \in LanguageArgs : SetLanguageStart(language, MaxCallsT)
    \/ \E c \in 1..MaxCalls : SetLanguageLoaded(c)
    \/ \E c \in 1..MaxCalls : SetLanguageRetried(c)

SpecDetect == InitDetectEnv /\ [][NextDetect]_vars /\ Fairness

\* the engine in the environments of InitTotal, with a consumer that calls t
SpecTotal == InitTotal /\ [][NextT]_vars

\* the engine in the environments of InitLoadEnv
SpecLoad == InitLoadEnv /\ [][NextDetect]_vars /\ Fairness

\* the sessions in which the resolver is observed on entries of every kind
InitKeys ==
    InitWith({Null},
             {Str(<<"e", "s", "-", "M", "X">>), Str(<<"e", "n", "-", "U", "S">>)},
             {EnCatalogKeys}, {EsCatalogKeys})

\* the engine in the environments of InitKeys, with a consumer that calls t
SpecKeys == InitKeys /\ [][NextT]_vars

\* the engine in the environments of InitTotal, every import settling in the end
SpecInitialization == InitTotal /\ [][NextDetect]_vars /\ Fairness

-----------------------------------------------------------------------------
(* The page is loaded again: a new provider over the same localStorage *)

\* the sessions that start without a stored preference
InitFresh == InitWith({Null}, NavValues, EnFiles, EsFiles)

\* lines 8-12: the state of a new provider; localStorage and the translation
\* files are those of the previous session, the module map is empty, the
\* navigator may report another language, the calls of the previous session are
\* gone, and setItemCalls counts the writes of the new session
NewSession ==
    /\ initPc # "mount"
    /\ currentLanguage' = Str(EN)
    /\ translations' = EmptyObject
    /\ fallbackTranslations' = EmptyObject
    /\ isLoading' = TRUE
    /\ hasError' = FALSE
    /\ setItemCalls' = 0
    /\ removeItemCalls' = 0
    /\ moduleCache' = {}
    /\ navLang' \in NavValues
    /\ initPc' = "mount"
    /\ initLocal' = [fallbackData |-> Null, savedLanguage |-> Null, initialLanguage |-> Null]
    /\ calls' = [c \in 1..MaxCalls |-> NoCall]
    /\ lastOutcome' = "none"
    /\ lastT' = [called |-> FALSE, key |-> Undefined, result |-> Undefined]
    /\ UNCHANGED <<storage, lastSetItem, lastSetItemOk, files>>

NextSessions ==
    \/ InitializeLanguage
    \/ InitDetect
    \/ InitLoaded
    \/ InitRetried
    \/ \E language \in LanguageArgs : SetLanguageStart(language, MaxCallsT)
    \/ \E c \in 1..MaxCalls : SetLanguageLoaded(c)
    \/ \E c \in 1..MaxCalls : SetLanguageRetried(c)
    \/ NewSession

SpecSessions == InitFresh /\ [][NextSessions]_vars

-----------------------------------------------------------------------------
(* LanguageToggle.jsx: the button that switches between en and es *)

\* a toggle that always asks for Spanish
HandleToggleAlwaysSpanish == SetLanguageStart(Str(ES), MaxCalls)

\* a toggle that asks for English only when Spanish is active
HandleToggleFromSpanishOnly ==
    SetLanguageStart(IF currentLanguage = Str(ES) THEN Str(EN) ELSE Str(ES), MaxCalls)

\* a toggle that computes its target from the stored preference
HandleToggleFromStored ==
    SetLanguageStart(IF storage = Str(EN) THEN Str(ES) ELSE Str(EN), MaxCalls)

\* handleToggle, lines 7-10: currentLanguage is the one of the render the
\* button belongs to, and the promise of setLanguage is dropped
HandleToggle ==
    SetLanguageStart(IF currentLanguage = Str(EN) THEN Str(ES) ELSE Str(EN), MaxCalls)

\* a user who clicks the button once the session is initialized and the
\* language change of the previous click has settled
Awaited == initPc = "done" /\ InFlight = {}

NextToggle ==
    \/ InitializeLanguage
    \/ InitDetect
    \/ InitLoaded
    \/ InitRetried
    \/ Awaited /\ HandleToggle
    \/ \E c \in 1..MaxCalls : SetLanguageLoaded(c)
    \/ \E c \in 1..MaxCalls : SetLanguageRetried(c)

SpecToggle == Init /\ [][NextToggle]_vars

\* a user who clicks the button once the session is initialized, without
\* waiting for the language change of an earlier click
Initialized == initPc = "done"

NextToggleRapid ==
    \/ InitializeLanguage
    \/ InitDetect
    \/ InitLoaded
    \/ InitRetried
    \/ Initialized /\ HandleToggle
    \/ \E c \in 1..MaxCalls : SetLanguageLoaded(c)
    \/ \E c \in 1..MaxCalls : SetLanguageRetried(c)

SpecToggleRapid == Init /\ [][NextToggleRapid]_vars

-----------------------------------------------------------------------------
(* Properties *)

\* the keys that are non-empty strings
StringKeys == {key \in KeyArgs : key.kind = "string" /\ key.val # <<>>}

RECURSIVE ValueAt(_, _)
\* the node of a catalog tree at a path of segments, Null when there is none
ValueAt(node, path) ==
    IF path = <<>> THEN node
    ELSE IF node.kind = "object" /\ Head(path) \in DOMAIN node.val
         THEN ValueAt(node.val[Head(path)], Tail(path))
         ELSE Null

\* the value a catalog holds for a dotted key
Lookup(catalog, key) == ValueAt(catalog, Split(String(key).val))

\* C1: in every reachable state the active catalog is the catalog of the active
\* locale: translations is never the content of another locale's file.
C1_CatalogOfActiveLocale ==
    HasKeys(translations) =>
        /\ currentLanguage.val \in DOMAIN files
        /\ translations = files[currentLanguage.val]

\* C2: in every reachable state the active locale is one of the supported
\* locales en and es.
C2_ActiveLocaleSupported == currentLanguage \in {Str(EN), Str(ES)}

\* C3 as stated: whenever the default locale is active and the default catalog is
\* held by the engine, t returns the default catalog's string for every key the
\* default catalog maps to a non-blank string.
C3_DefaultLocaleResolves ==
    \A key \in StringKeys :
        (/\ currentLanguage = Str(EN)
         /\ HasKeys(fallbackTranslations)
         /\ IsText(Lookup(fallbackTranslations, key)))
        => t(key) = Lookup(fallbackTranslations, key)

\* C3 as amended: the same, once initializeLanguage has committed (isLoading is
\* false); between the load of the default catalog and that commit t returns
\* the key.
C3_DefaultLocaleResolvesWhenInitialized ==
    \A key \in StringKeys :
        (/\ ~isLoading
         /\ currentLanguage = Str(EN)
         /\ HasKeys(fallbackTranslations)
         /\ IsText(Lookup(fallbackTranslations, key)))
        => t(key) = Lookup(fallbackTranslations, key)

\* t was called after initialization, with en active, for the nested key a.a of
\* the default catalog and returned its string
C3_Witness ==
    /\ lastT.called
    /\ ~isLoading
    /\ currentLanguage = Str(EN)
    /\ fallbackTranslations = EnCatalog
    /\ lastT.key = Str(<<"a", ".", "a">>)
    /\ lastT.result = Str(<<"A", "A", "e", "n">>)
    /\ lastT.result = t(lastT.key)

\* C4: with a locale other than en active, a key that the active catalog lacks
\* (or maps to a blank or non-string value) and the default catalog maps to a
\* non-blank string resolves to the default catalog's string.
C4_FallsBackToDefault ==
    \A key \in StringKeys :
        (/\ currentLanguage # Str(EN)
         /\ ~IsText(Lookup(translations, key))
         /\ IsText(Lookup(fallbackTranslations, key)))
        => t(key) = Lookup(fallbackTranslations, key)

\* t was called with es and its catalog active for b.b, which es.json lacks, and
\* returned the string of en.json
C4_Witness ==
    /\ lastT.called
    /\ currentLanguage = Str(ES)
    /\ translations = EsCatalog
    /\ fallbackTranslations = EnCatalog
    /\ lastT.key = Str(<<"b", ".", "b">>)
    /\ lastT.result = Str(<<"B", "B", "e", "n">>)
    /\ lastT.result = t(lastT.key)

\* C5: a key absent from the active and the default catalog resolves to itself,
\* and to its string form when it is not a string.
C5_IdentityFallback ==
    [][(/\ lastT' # lastT
        /\ ~IsText(Lookup(translations, lastT'.key))
        /\ ~IsText(Lookup(fallbackTranslations, lastT'.key)))
       => lastT'.result = String(lastT'.key)]_vars

\* C6: a key that is not a non-empty string resolves to its string
\* representation: null to "null", a number to its decimal text, '' to ''.
C6_InvalidKeyCoerced ==
    (lastT.called /\ (~IsTruthy(lastT.key) \/ Typeof(lastT.key) # "string"))
        => lastT.result = String(lastT.key)

\* what loadTranslations reads out of the module of a language
CatalogFile(language) == ModuleValue(Namespace(files[language]))

\* this step ends the load of call c, and the load returns data
LoadReturns(c, data) ==
    /\ calls'[c].pc = "done"
    /\ \/ /\ calls[c].pc = "load"
          /\ calls[c].language.val \in moduleCache'
          /\ IsProperObject(CatalogFile(calls[c].language.val))
          /\ data = CatalogFile(calls[c].language.val)
       \/ /\ calls[c].pc = "retryEnglish"
          /\ EN \in moduleCache'
          /\ IsProperObject(CatalogFile(EN))
          /\ data = CatalogFile(EN)

\* the catalogs a load can return
Catalogs == {CatalogFile(language) : language \in DOMAIN files}

\* this step is the commit of a setLanguage call
CommitStep ==
    /\ \E c \in 1..MaxCalls : calls[c].pc \in {"load", "retryEnglish"} /\ calls'[c].pc = "done"
    /\ lastOutcome' = "committed"

\* C7: a setLanguage call with a valid-format code settles in the end, and when
\* its load returns a non-empty catalog the step that settles it sets
\* currentLanguage to the code and translations to the loaded catalog.
C7_ChangeLocaleCommits ==
    /\ \A c \in 1..MaxCalls : (calls[c].pc = "load") ~> (calls[c].pc = "done")
    /\ [][\A c \in 1..MaxCalls : \A data \in Catalogs :
            (LoadReturns(c, data) /\ HasKeys(data))
            => /\ currentLanguage' = calls[c].language
               /\ translations' = data
               /\ lastOutcome' = "committed"]_vars

\* setLanguage('es') was called after initialization had left en active, and it
\* has settled with es and the catalog of es.json active
C7_Witness ==
    /\ initPc = "done"
    /\ initLocal.initialLanguage = Str(EN)
    /\ calls[1].pc = "done"
    /\ lastOutcome = "committed"
    /\ currentLanguage = Str(ES)
    /\ translations = EsCatalog
    /\ t(Str(<<"a", ".", "a">>)) = Str(<<"A", "A", "e", "s">>)

\* C8: every commit of setLanguage calls localStorage.setItem exactly once, with
\* the committed language, and no other step calls it.
C8_CommitWritesPreference ==
    [][/\ CommitStep => /\ setItemCalls' = setItemCalls + 1
                        /\ lastSetItem' = currentLanguage'
       /\ ~CommitStep => setItemCalls' = setItemCalls]_vars

\* setLanguage('es') committed from en and wrote 'es' once
C8_Witness ==
    /\ initLocal.initialLanguage = Str(EN)
    /\ initPc = "done"
    /\ lastOutcome = "committed"
    /\ currentLanguage = Str(ES)
    /\ setItemCalls = 1
    /\ lastSetItem = Str(ES)
    /\ lastSetItemOk
    /\ storage = Str(ES)

\* C9: when localStorage.setItem throws in a setLanguage call whose load returned
\* a non-empty catalog, the call still commits the language and that catalog
\* and settles.
C9_WriteFailureStillCommits ==
    [][\A c \in 1..MaxCalls : \A data \in Catalogs :
          (/\ LoadReturns(c, data)
           /\ HasKeys(data)
           /\ setItemCalls' = setItemCalls + 1
           /\ ~lastSetItemOk')
          => /\ currentLanguage' = calls[c].language
             /\ translations' = data
             /\ lastOutcome' = "committed"]_vars

\* setLanguage('es') committed from en although its write threw
C9_Witness ==
    /\ initLocal.initialLanguage = Str(EN)
    /\ initPc = "done"
    /\ lastOutcome = "committed"
    /\ setItemCalls = 1
    /\ lastSetItem = Str(ES)
    /\ ~lastSetItemOk
    /\ storage # Str(ES)
    /\ currentLanguage = Str(ES)
    /\ translations = EsCatalog

\* C10: no load is ever in flight for a code that is not two lower-case letters,
\* and the step in which setLanguage rejects a code changes neither the engine
\* state nor the loads in flight nor the preference store.
C10_InvalidCodeRejected ==
    /\ [](\A c \in 1..MaxCalls :
            calls[c].pc \in {"load", "retryEnglish"}
            => /\ calls[c].language.kind = "string"
               /\ Len(calls[c].language.val) = 2
               /\ \A i \in 1..2 : calls[c].language.val[i] \in LowerCase)
    /\ [][(lastOutcome # "rejected" /\ lastOutcome' = "rejected")
          => UNCHANGED <<currentLanguage, translations, fallbackTranslations, isLoading,
                         hasError, calls, moduleCache, storage, setItemCalls>>]_vars

\* a setLanguage call was rejected with es active after initialization and no
\* load in flight
C10_Witness ==
    /\ lastOutcome = "rejected"
    /\ initPc = "done"
    /\ currentLanguage = Str(ES)
    /\ translations = EsCatalog
    /\ \A c \in 1..MaxCalls : calls[c].pc = "idle"

\* this step ends the load of call c, and the load returns an empty catalog
LoadReturnsEmpty(c) ==
    /\ calls[c].pc \in {"load", "retryEnglish"}
    /\ calls'[c].pc = "done"
    /\ ~\E data \in Catalogs : LoadReturns(c, data) /\ HasKeys(data)

C12_LastLoadWins ==
    /\ [][\A c, d \in 1..MaxCalls :
            (c # d /\ calls'[c] # calls[c]) => calls'[d] = calls[d]]_vars
    /\ [][\A c, d \in 1..MaxCalls : \A data \in Catalogs :
            (/\ c # d
             /\ calls[d].pc # "idle"
             /\ LoadReturns(c, data)
             /\ HasKeys(data))
            => /\ currentLanguage' = calls[c].language
               /\ translations' = data
               /\ calls'[d] = calls[d]]_vars

\* setLanguage('en') and then setLanguage('es') were issued with en active; the
\* second has committed es while the first is still loading en.json, and its
\* commit is still to come
C12_Witness ==
    /\ initPc = "done"
    /\ initLocal.initialLanguage = Str(EN)
    /\ calls[1] = [pc |-> "load", language |-> Str(EN)]
    /\ calls[2].pc = "done"
    /\ lastOutcome = "committed"
    /\ setItemCalls = 1
    /\ currentLanguage = Str(ES)
    /\ translations = EsCatalog

\* this step ends the load of initializeLanguage, and the load returns data
InitLoadReturns(data) ==
    /\ initPc' = "done"
    /\ \/ /\ initPc = "load"
          /\ data = IF LoadLanguage(initLocal.initialLanguage).val \in moduleCache'
                    THEN CatalogFile(LoadLanguage(initLocal.initialLanguage).val)
                    ELSE EmptyObject
       \/ /\ initPc = "retryEnglish"
          /\ data = IF EN \in moduleCache' THEN CatalogFile(EN) ELSE EmptyObject

\* C13: every step that changes currentLanguage or translations is the commit
\* of initializeLanguage or of one setLanguage call, and it leaves both the
\* language of that commit and the catalog its load returned: no state has
\* the language of one commit and the catalog of another.
C13_CommitIsOneStep ==
    [][(currentLanguage' # currentLanguage \/ translations' # translations)
       => \/ \E data \in Catalogs \cup {EmptyObject} :
               /\ InitLoadReturns(data)
               /\ currentLanguage' = initLocal.initialLanguage
               /\ translations' = data
          \/ \E c \in 1..MaxCalls : \E data \in Catalogs :
               /\ LoadReturns(c, data)
               /\ HasKeys(data)
               /\ currentLanguage' = calls[c].language
               /\ translations' = data]_vars

\* initializeLanguage committed es, and a setLanguage('fr') call then replaced
\* language and catalog together by fr and the English catalog its load
\* returned
C13_Witness ==
    /\ initPc = "done"
    /\ initLocal.initialLanguage = Str(ES)
    /\ calls[1].pc = "done"
    /\ calls[2].pc = "idle"
    /\ lastOutcome = "committed"
    /\ lastSetItem = Str(FR)
    /\ currentLanguage = Str(FR)
    /\ translations = EnCatalog
    /\ ES \in moduleCache

\* initializeLanguage has read the stored preference and the navigator
InitDetected == initPc \in {"load", "retryEnglish", "done"}

\* this step is the commit of initializeLanguage
InitCommitStep == initPc \in {"load", "retryEnglish"} /\ initPc' = "done"

\* the languages that have a translation file
Supported == {Str(EN), Str(ES)}

\* C14: when the stored preference read at initialization is a supported
\* language, it is the initial language whatever the navigator gives, and
\* initializeLanguage commits it.
C14_StoredPreferenceWins ==
    /\ [](InitDetected /\ initLocal.savedLanguage \in Supported
            => initLocal.initialLanguage = initLocal.savedLanguage)
    /\ [][InitCommitStep /\ initLocal.savedLanguage \in Supported
            => currentLanguage' = initLocal.savedLanguage]_vars

\* with 'en' stored and a navigator giving es-ES, initialization has committed
\* en and the English catalog
C14_Witness ==
    /\ initPc = "done"
    /\ initLocal.savedLanguage = Str(EN)
    /\ navLang = Str(<<"e", "s", "-", "E", "S">>)
    /\ \A c \in 1..MaxCalls : calls[c].pc = "idle"
    /\ currentLanguage = Str(EN)
    /\ translations = EnCatalog
    /\ storage = Str(EN)

\* the first two characters of a signal, lower-cased
SignalPrefix(signal) ==
    ToLowerCase(SubSeq(signal.val, 1, IF Len(signal.val) < 2 THEN Len(signal.val) ELSE 2))

\* the language a signal stands for: its prefix when that is a supported
\* language, en otherwise and when there is no signal
SignalLanguage(signal) ==
    IF signal.kind = "string" /\ Str(SignalPrefix(signal)) \in Supported
    THEN Str(SignalPrefix(signal))
    ELSE Str(EN)

\* C15: when initialization reads no stored preference and the navigator can be
\* read, the initial language is the lower-cased two-letter prefix of
\* navigator.language when that is en or es, and en otherwise; initializeLanguage
\* commits it.
C15_DetectsFromSignal ==
    /\ [](InitDetected /\ initLocal.savedLanguage = Null /\ navLang # Throws
            => initLocal.initialLanguage = SignalLanguage(navLang))
    /\ [][InitCommitStep /\ initLocal.savedLanguage = Null /\ navLang # Throws
            => currentLanguage' = SignalLanguage(navLang)]_vars

\* with nothing stored and a navigator giving es-MX, initialization has
\* committed es and the Spanish catalog
C15_Witness ==
    /\ initPc = "done"
    /\ initLocal.savedLanguage = Null
    /\ storage = Null
    /\ navLang = Str(<<"e", "s", "-", "M", "X">>)
    /\ \A c \in 1..MaxCalls : calls[c].pc = "idle"
    /\ currentLanguage = Str(ES)
    /\ translations = EsCatalog

\* the language detection yields without a stored preference
DetectedWithoutPreference ==
    IF navLang = Throws THEN Str(EN) ELSE SignalLanguage(navLang)

\* C16: a stored preference is the initial language only when it is a supported
\* language; any other stored value, also one of two lower-case letters such
\* as 'fr', is discarded and the initial language comes from the navigator,
\* or is en.
C16_StoredPreferenceMustBeSupported ==
    (InitDetected /\ initLocal.savedLanguage \notin Supported)
        => initLocal.initialLanguage = DetectedWithoutPreference

\* this step is the one in which initializeLanguage reads the stored preference
InitDetectStep == initPc = "loadFallback" /\ initPc' = "load"

\* C17: whenever the value read from localStorage is not a supported language,
\* initializeLanguage calls localStorage.removeItem once, whether or not that
\* call succeeds, and the initial language is the one it would be with
\* nothing stored.
C17_InvalidPreferenceCleared ==
    [][(/\ InitDetectStep
        /\ initLocal'.savedLanguage # Null
        /\ initLocal'.savedLanguage \notin Supported)
       => /\ removeItemCalls' = removeItemCalls + 1
          /\ initLocal'.initialLanguage = DetectedWithoutPreference]_vars

\* C18: the read of the stored preference gives the stored value or, when
\* localStorage.getItem throws, nothing; in that case nothing is removed and the
\* initial language is the one detection yields with nothing stored; and
\* initialization always completes.
C18_ReadFailureIsAbsent ==
    /\ [][InitDetectStep
            => /\ initLocal'.savedLanguage \in {storage, Null}
               /\ (storage # Null /\ initLocal'.savedLanguage = Null)
                    => /\ initLocal'.initialLanguage = DetectedWithoutPreference
                       /\ removeItemCalls' = removeItemCalls
                       /\ storage' = storage]_vars
    /\ (initPc = "loadFallback") ~> (initPc = "done" /\ ~isLoading)

\* 'es' is stored, the read threw, the navigator gives en-US: initialization
\* has committed en and the English catalog and 'es' is still stored
C18_Witness ==
    /\ initPc = "done"
    /\ storage = Str(ES)
    /\ setItemCalls = 0
    /\ initLocal.savedLanguage = Null
    /\ navLang = Str(<<"e", "n", "-", "U", "S">>)
    /\ currentLanguage = Str(EN)
    /\ translations = EnCatalog
    /\ ~isLoading

\* C19: when reading navigator.language throws and the stored preference read
\* is not a supported language, the initial language is en.
C19_SignalFailureIsDefault ==
    (InitDetected /\ navLang = Throws /\ initLocal.savedLanguage \notin Supported)
        => initLocal.initialLanguage = Str(EN)

\* the load of the fallback catalog failed in this session's initializeLanguage
\* (en.json, when it loads, is never empty)
FallbackLoadFailed == InitDetected /\ initLocal.fallbackData = EmptyObject

\* C20: when loadFallbackTranslations failed, initialization ends, before any
\* setLanguage call, with the error flag set, en active and both catalogs
\* empty, and t returns every string key unchanged.
C20_DegradedAfterFallbackFailure ==
    (/\ initPc = "done"
     /\ FallbackLoadFailed
     /\ \A c \in 1..MaxCalls : calls[c].pc = "idle")
    => /\ hasError
       /\ currentLanguage = Str(EN)
       /\ translations = EmptyObject
       /\ fallbackTranslations = EmptyObject
       /\ \A key \in StringKeys : t(key) = key

\* the values of type object: objects and arrays
ObjectValues(v) == v.kind \in {"object", "array"}

\* C21: every load that is started settles, and it settles by returning an
\* object: initializeLanguage commits its initial language with the object
\* the load returned and never takes its catch block, and a setLanguage call
\* commits an object or gives up.
C21_LoaderNeverThrows ==
    /\ (initPc = "load") ~> (initPc = "done")
    /\ \A c \in 1..MaxCalls : (calls[c].pc = "load") ~> (calls[c].pc = "done")
    /\ [][InitCommitStep
            => /\ ObjectValues(translations')
               /\ currentLanguage' = initLocal.initialLanguage
               /\ fallbackTranslations' = fallbackTranslations]_vars
    /\ [][\A c \in 1..MaxCalls :
            (calls[c].pc # "done" /\ calls'[c].pc = "done")
            => \/ lastOutcome' = "aborted" /\ translations' = translations
               \/ lastOutcome' = "committed" /\ ObjectValues(translations')]_vars

\* es.json holds a string and en.json cannot be imported: initialization for es
\* has ended with es active and the empty catalog the loader returned
C21_Witness ==
    /\ initPc = "done"
    /\ files[ES] = MalformedFile
    /\ moduleCache = {ES}
    /\ initLocal.initialLanguage = Str(ES)
    /\ currentLanguage = Str(ES)
    /\ translations = EmptyObject
    /\ hasError

\* a file content that is not a catalog: not an object, or an array, or null
Malformed(content) == content.kind # "object"

\* C22: when the initial language is es and es.json cannot be imported or does
\* not hold an object, the catalog initializeLanguage receives from the loader
\* and commits is the content of en.json, or the empty catalog when en.json
\* cannot be loaded either.
C22_MalformedFallsBackToDefault ==
    [][(/\ InitCommitStep
        /\ initLocal.initialLanguage = Str(ES)
        /\ (Malformed(files[ES]) \/ ES \notin moduleCache'))
       => translations' \in {files[EN], EmptyObject}]_vars

\* C23: outside a provider the language a consumer reads is en, the fallback t
\* returns every string key unchanged, and a call of the fallback t or of the
\* fallback setLanguage returns and changes nothing: no language, catalog,
\* load or stored preference.
C23_FallbackOutsideProvider ==
    /\ [](/\ FallbackCurrentLanguage = Str(EN)
          /\ (lastT.called /\ lastT.key.kind = "string") => lastT.result = lastT.key)
    /\ [][/\ lastOutcome' # lastOutcome => lastOutcome' = "ignored"
          /\ UNCHANGED <<currentLanguage, translations, fallbackTranslations,
                         storage, setItemCalls, removeItemCalls, moduleCache,
                         calls, initPc>>]_vars

\* the fallback setLanguage and then the fallback t for a.b were called with
\* 'es' stored: the key came back and nothing was loaded or written
C23_Witness ==
    /\ lastOutcome = "ignored"
    /\ lastT.called
    /\ lastT.key = Str(<<"a", ".", "b">>)
    /\ lastT.result = Str(<<"a", ".", "b">>)
    /\ storage = Str(ES)
    /\ initPc = "mount"
    /\ moduleCache = {}

\* C24: whatever fails, the language a consumer reads is a string, every call
\* of t returns a string in the step of the call, and a setLanguage call whose
\* import is in flight can always go on, whatever the import gives, and ends
\* by committing or by giving up.
C24_OperationsTotal ==
    /\ [](/\ currentLanguage.kind = "string"
          /\ lastT.called => lastT.result.kind = "string"
          /\ \A c \in 1..MaxCalls :
                /\ calls[c].pc = "load" => ENABLED SetLanguageLoaded(c)
                /\ calls[c].pc = "retryEnglish" => ENABLED SetLanguageRetried(c))
    /\ [][\A c \in 1..MaxCalls :
            (calls[c].pc # "done" /\ calls'[c].pc = "done")
            => lastOutcome' \in {"committed", "aborted"}]_vars

\* with a throwing navigator and en.json malformed, a setLanguage call gave up
\* and t(null) then returned ''
C24_Witness ==
    /\ navLang = Throws
    /\ files[EN] = MalformedFile
    /\ initPc = "done"
    /\ hasError
    /\ calls[1].pc = "done"
    /\ lastOutcome = "aborted"
    /\ lastT.called
    /\ lastT.key = Null
    /\ lastT.result = Str(<<>>)

\* C25: when a setLanguage call for a language commits the catalog of that
\* language's file while that language and that catalog are already active
\* (an earlier call for it has committed), language and catalog stay as they
\* are, and the stored preference is that language or what it was.
C25_ChangeLocaleIdempotent ==
    [][\A c \in 1..MaxCalls :
          (/\ calls[c].pc = "load"
           /\ calls'[c].pc = "done"
           /\ lastOutcome' = "committed"
           /\ calls[c].language.val \in moduleCache'
           /\ currentLanguage = calls[c].language
           /\ translations = CatalogFile(calls[c].language.val))
          => /\ currentLanguage' = currentLanguage
             /\ translations' = translations
             /\ storage' \in {storage, currentLanguage}]_vars

\* from en, setLanguage('es') was called twice and both calls have committed:
\* es and the Spanish catalog are active as after the first
C25_Witness ==
    /\ initPc = "done"
    /\ initLocal.initialLanguage = Str(EN)
    /\ moduleCache = {EN, ES}
    /\ calls[1].pc = "done"
    /\ calls[2].pc = "done"
    /\ setItemCalls = 2
    /\ lastOutcome = "committed"
    /\ currentLanguage = Str(ES)
    /\ translations = EsCatalog
    /\ storage = Str(ES)

\* C26: a session that is initialized with en and without a load error holds
\* en and the content of en.json before the first click on the toggle; after
\* two clicks, each made when everything before it had settled, that both
\* committed (the first asks for es, the second for en), en and the same content
\* are active again.
C26_RoundTripRestores ==
    (/\ initPc = "done"
     /\ initLocal.initialLanguage = Str(EN)
     /\ ~hasError
     /\ \/ calls[1].pc = "idle"
        \/ /\ calls[1].pc = "done"
           /\ calls[2].pc = "done"
           /\ \A c \in 3..MaxCalls : calls[c].pc = "idle"
           /\ setItemCalls = 2)
    => /\ currentLanguage = Str(EN)
       /\ translations = CatalogFile(EN)

\* en was active with the English catalog; es was requested, loaded from
\* es.json and committed; en was requested and committed
C26_Witness ==
    /\ initPc = "done"
    /\ initLocal.initialLanguage = Str(EN)
    /\ ~hasError
    /\ files[ES] = EsCatalog
    /\ moduleCache = {EN, ES}
    /\ calls[1].pc = "done"
    /\ calls[2].pc = "done"
    /\ setItemCalls = 2
    /\ lastSetItem = Str(EN)
    /\ currentLanguage = Str(EN)
    /\ translations = EnCatalog

\* the language the toggle asks for when a language is active
Toggled(language) == IF language = Str(EN) THEN Str(ES) ELSE Str(EN)

\* C29: every click on the toggle starts a setLanguage call for es when en is
\* active and for en when anything else is; and when en.json and es.json hold
\* catalogs and the import of a click's language succeeds, the call commits and
\* the active language goes from en to es or from anything else to en, each
\* click being made after the previous change has settled.
C29_ToggleAlternates ==
    /\ [][\A c \in 1..MaxCalls :
             (calls[c].pc = "idle" /\ calls'[c].pc # "idle")
             => calls'[c] = [pc |-> "load", language |-> Toggled(currentLanguage)]]_vars
    /\ [][\A c \in 1..MaxCalls :
             (/\ c \in InFlight
              /\ calls'[c].pc = "done"
              /\ files[EN] = EnCatalog
              /\ files[ES] = EsCatalog
              /\ calls[c].language.val \in moduleCache')
             => /\ lastOutcome' = "committed"
                /\ currentLanguage' = Toggled(currentLanguage)
                /\ translations' = CatalogFile(currentLanguage'.val)]_vars

\* a session restored to es: the first click committed en, the second es
C29_Witness ==
    /\ initPc = "done"
    /\ initLocal.initialLanguage = Str(ES)
    /\ files[ES] = EsCatalog
    /\ moduleCache = {EN, ES}
    /\ calls[1].pc = "done"
    /\ calls[2].pc = "done"
    /\ setItemCalls = 2
    /\ lastSetItem = Str(ES)
    /\ currentLanguage = Str(ES)
    /\ translations = EsCatalog

\* C27: the fallback catalog of the state is set by one step of the session,
\* the one in which loadFallbackTranslations settles during initialization:
\* that step happens once, it stores the content of en.json when the import
\* succeeds and the content is an object and {} otherwise, and no other step
\* (a setLanguage call, a failed load, a call of t) changes the fallback catalog.
C27_DefaultCatalogHeld ==
    /\ [][fallbackTranslations' # fallbackTranslations => InitDetectStep]_vars
    /\ [][InitDetectStep
          => fallbackTranslations' =
                IF EN \in moduleCache' /\ IsProperObject(CatalogFile(EN))
                THEN CatalogFile(EN) ELSE EmptyObject]_vars
    /\ [][initPc' = "loadFallback" => initPc \in {"mount", "loadFallback"}]_vars

\* the English catalog is held after a setLanguage call that committed the
\* content of a malformed es.json and a call of t
C27_Witness ==
    /\ initPc = "done"
    /\ fallbackTranslations = EnCatalog
    /\ files[ES] = ArrayFile
    /\ calls[1].pc = "done"
    /\ lastOutcome = "committed"
    /\ translations = ArrayFile
    /\ hasError = FALSE
    /\ lastT.called

\* a setLanguage call commits
SetLanguageCommitStep(c) ==
    c \in InFlight /\ calls'[c].pc = "done" /\ lastOutcome' = "committed"

\* C28: a setLanguage call that commits a language and whose write returns
\* leaves that language in localStorage; and a session that starts while
\* localStorage holds the language of the last successful write and reads it
\* takes that language as its initial language and commits it as the current
\* language, whatever the navigator reports.
C28_RestoredAcrossSessions ==
    /\ [][\A c \in 1..MaxCalls :
             (SetLanguageCommitStep(c) /\ lastSetItemOk')
             => storage' = calls[c].language /\ lastSetItem' = calls[c].language]_vars
    /\ [][(/\ InitDetectStep
           /\ lastSetItem # Null
           /\ lastSetItemOk
           /\ initLocal'.savedLanguage = storage)
          => /\ storage = lastSetItem
             /\ initLocal'.initialLanguage = lastSetItem]_vars
    /\ [][InitCommitStep => currentLanguage' = initLocal.initialLanguage]_vars

\* a session wrote en; the next one runs under a Spanish navigator, has made no
\* call of its own and is initialized with en
C28_Witness ==
    /\ lastSetItem = Str(EN)
    /\ lastSetItemOk
    /\ storage = Str(EN)
    /\ navLang = Str(<<"e", "s", "-", "M", "X">>)
    /\ setItemCalls = 0
    /\ \A c \in 1..MaxCalls : calls[c] = NoCall
    /\ initPc = "done"
    /\ initLocal.savedLanguage = Str(EN)
    /\ initLocal.initialLanguage = Str(EN)
    /\ currentLanguage = Str(EN)
    /\ translations = EnCatalog

\* C30: a mounted provider is loading until initializeLanguage has run to its
\* end, it does run to its end whichever of its imports, storage calls and
\* navigator reads fail, the loading flag is then cleared (with the error flag
\* set or not), and no later step sets the loading flag again.
C30_InitializationTerminates ==
    /\ (initPc = "mount") ~> (initPc = "done" /\ ~isLoading)
    /\ [](initPc # "done" <=> isLoading)
    /\ [][~isLoading => ~isLoading']_vars

\* initialization has ended although the stored preference is invalid and its
\* removal threw, the navigator threw and en.json is malformed
C30_Witness ==
    /\ initPc = "done"
    /\ ~isLoading
    /\ hasError
    /\ navLang = Throws
    /\ files[EN] = MalformedFile
    /\ storage = Str(<<"x", "y", "z">>)
    /\ removeItemCalls = 1
    /\ \A c \in 1..MaxCalls : calls[c] = NoCall
    /\ currentLanguage = Str(EN)
    /\ translations = EmptyObject

\* C31: a key that is not a non-empty string is looked up by its string form:
\* when the active catalog maps that text to a non-blank string, t returns the
\* catalog's string.
C31_CoercedKeyLookedUp ==
    \A key \in KeyArgs \ StringKeys :
        IsText(Lookup(translations, String(key)))
        => t(key) = Lookup(translations, String(key))

\* a string with a character that is not white space
NonBlankString(v) == v.kind = "string" /\ \E i \in 1..Len(v.val) : v.val[i] \notin WhiteSpace

\* a dotted key misses in a catalog: its path ends at no node, at a node that
\* is not a string, or at a blank string
Misses(catalog, key) == ~NonBlankString(Lookup(catalog, key))

\* C32: for every non-empty string key whose path in the active catalog ends at
\* a number, a nested object, a blank string, a missing segment or a node that
\* is not an object, t returns the default catalog's string when the active
\* language is not en and that catalog holds a non-blank string for the key,
\* and the key itself otherwise; the result is never blank and never a value
\* that is not a string.
C32_MissReturnsFallbackOrKey ==
    \A key \in StringKeys :
        /\ NonBlankString(t(key))
        /\ Misses(translations, key)
           => t(key) = IF currentLanguage # Str(EN) /\ ~Misses(fallbackTranslations, key)
                       THEN Lookup(fallbackTranslations, key)
                       ELSE key

\* with es active, t was called for b.a: es.json holds a number there and
\* en.json a string at b, so both catalogs miss and the key came back
C32_Witness ==
    /\ lastT.called
    /\ currentLanguage = Str(ES)
    /\ translations = EsCatalogKeys
    /\ fallbackTranslations = EnCatalogKeys
    /\ lastT.key = Str(<<"b", ".", "a">>)
    /\ Lookup(translations, lastT.key) = Num(7)
    /\ Lookup(fallbackTranslations, lastT.key) = Null
    /\ lastT.result = lastT.key

\* C33: with en active, t returns the key for every non-empty string key that
\* misses in the active catalog, whether or not the fallback catalog holds a
\* string for it.
C33_DefaultNotConsultedForDefault ==
    \A key \in StringKeys :
        (currentLanguage = Str(EN) /\ Misses(translations, key)) => t(key) = key

\* initialization holds the fallback catalog and has not committed yet: t was
\* called for b, which the fallback catalog maps to a string, and returned b
C33_Witness ==
    /\ initPc = "load"
    /\ currentLanguage = Str(EN)
    /\ translations = EmptyObject
    /\ fallbackTranslations = EnCatalogKeys
    /\ lastT.called
    /\ lastT.key = Str(<<"b">>)
    /\ Lookup(fallbackTranslations, lastT.key) = Str(<<"B", "e", "n">>)
    /\ lastT.result = Str(<<"b">>)

\* C34: no step clears the error flag once it is set: not a setLanguage call
\* that commits or is aborted, and not a load that succeeds.
C34_DegradedIsPermanent ==
    [][hasError => hasError']_vars

\* the load of the fallback catalog failed during initialization; later
\* setLanguage('es') loaded es.json and committed, and the flag is still set
C34_Witness ==
    /\ initPc = "done"
    /\ FallbackLoadFailed
    /\ hasError
    /\ files[ES] = EsCatalog
    /\ initLocal.initialLanguage = Str(EN)
    /\ calls[1].pc = "done"
    /\ lastOutcome = "committed"
    /\ currentLanguage = Str(ES)
    /\ translations = EsCatalog

\* this step ends an import of en.json that failed or gave no object
EnglishLoadFails ==
    /\ EN \notin moduleCache' \/ ~IsProperObject(CatalogFile(EN))
    /\ \/ initPc = "loadFallback" /\ initPc' = "load"
       \/ initPc = "retryEnglish" /\ initPc' = "done"
       \/ initPc = "load" /\ initPc' = "done" /\ initLocal.initialLanguage = Str(EN)
       \/ \E c \in 1..MaxCalls :
             /\ calls'[c].pc = "done"
             /\ \/ calls[c].pc = "retryEnglish"
                \/ calls[c].pc = "load" /\ calls[c].language = Str(EN)

\* C35: the error flag is set only by a step in which an import of en.json
\* fails or gives no object (the fallback load of initialization, a load of en,
\* or the retry with en after another language failed); the step in which the
\* load of another language fails and the retry is started, and the step in
\* which that retry succeeds, leave the flag as it is.
C35_DegradedOnlyOnDefaultFailure ==
    /\ [][(hasError' /\ ~hasError) => EnglishLoadFails]_vars
    /\ [][(\/ initPc = "load" /\ initPc' = "retryEnglish"
           \/ \E c \in 1..MaxCalls : calls[c].pc = "load" /\ calls'[c].pc = "retryEnglish"
           \/ /\ EN \in moduleCache'
              /\ IsProperObject(CatalogFile(EN))
              /\ \/ initPc = "retryEnglish" /\ initPc' = "done"
                 \/ \E c \in 1..MaxCalls :
                       calls[c].pc = "retryEnglish" /\ calls'[c].pc = "done")
          => hasError' = hasError]_vars

\* es.json is malformed: setLanguage('es') retried with en.json, committed that
\* catalog, and the flag is not set
C35_Witness ==
    /\ initPc = "done"
    /\ initLocal.initialLanguage = Str(EN)
    /\ files[ES] = MalformedFile
    /\ ES \in moduleCache
    /\ calls[1].pc = "done"
    /\ lastOutcome = "committed"
    /\ currentLanguage = Str(ES)
    /\ translations = EnCatalog
    /\ ~hasError

\* C36: a setLanguage call starts its load only when initialization has ended,
\* and the commit of initializeLanguage leaves language and catalog alone when
\* a setLanguage call of the session has committed before it.
C36_InitNeverOverwritesSwitch ==
    /\ [][\A c \in 1..MaxCalls :
             (calls[c].pc = "idle" /\ calls'[c].pc = "load") => ~isLoading]_vars
    /\ [][(InitCommitStep /\ setItemCalls > 0)
          => UNCHANGED <<currentLanguage, translations>>]_vars

\* C37: every commit of a setLanguage call whose write returns leaves the
\* committed language in localStorage, and once initialization has ended no
\* step other than a commit whose write throws separates the stored preference
\* from the current language: whenever the calls are made after initialization
\* and no write throws, the two are equal from the first commit on, however
\* the loads of overlapping calls are ordered.
C37_PreferenceFollowsLocale ==
    /\ [][\A c \in 1..MaxCalls :
             (SetLanguageCommitStep(c) /\ lastSetItemOk') => storage' = currentLanguage']_vars
    /\ [][(/\ initPc = "done"
           /\ storage = currentLanguage
           /\ ~(\E c \in 1..MaxCalls : SetLanguageCommitStep(c) /\ ~lastSetItemOk'))
          => storage' = currentLanguage']_vars

\* two calls made in a session initialized with en have both committed, the
\* later commit being the one of es, and es is stored and active
C37_Witness ==
    /\ initPc = "done"
    /\ initLocal.initialLanguage = Str(EN)
    /\ calls[1].pc = "done"
    /\ calls[2].pc = "done"
    /\ setItemCalls = 2
    /\ lastSetItemOk
    /\ lastSetItem = Str(ES)
    /\ storage = Str(ES)
    /\ currentLanguage = Str(ES)
    /\ hasError = FALSE

\* C38: the step in which a setLanguage call is rejected for its argument, and
\* the step in which a call settles without committing because its load gave
\* an empty catalog, call localStorage.setItem not at all and leave the stored
\* preference as it was.
C38_NoWriteWithoutCommit ==
    [][(\/ lastOutcome # "rejected" /\ lastOutcome' = "rejected"
        \/ /\ lastOutcome' = "aborted"
           /\ \E c \in 1..MaxCalls : c \in InFlight /\ calls'[c].pc = "done")
       => UNCHANGED <<storage, setItemCalls, lastSetItem, lastSetItemOk>>]_vars

\* es.json is empty: setLanguage('es') was aborted, and the stored 'fr' of the
\* session's start is still there, with no write made
C38_Witness ==
    /\ initPc = "done"
    /\ files[ES] = EmptyObject
    /\ ES \in moduleCache
    /\ calls[1].pc = "done"
    /\ lastOutcome = "aborted"
    /\ setItemCalls = 0
    /\ lastSetItem = Null
    /\ storage = Str(FR)
    /\ currentLanguage = Str(FR)

\* C39: a click on the toggle requests the language opposite to the one that
\* is current when it is made; so as long as no call of the session has
\* committed, all the calls in flight request the same language, the opposite
\* of the current one; and when a second of them commits after a first, the
\* current language stays that target and is not the session's initial one.
C39_RapidTogglesSameTarget ==
    /\ [][\A c \in 1..MaxCalls :
             (calls[c].pc = "idle" /\ calls'[c].pc = "load")
             => calls'[c].language = Toggled(currentLanguage)]_vars
    /\ [](setItemCalls = 0
          => \A c \in InFlight : calls[c].language = Toggled(currentLanguage))
    /\ [][\A c \in 1..MaxCalls :
             (/\ SetLanguageCommitStep(c)
              /\ setItemCalls = 1
              /\ calls[c].language = currentLanguage)
             => /\ currentLanguage' = currentLanguage
                /\ currentLanguage' # initLocal.initialLanguage]_vars

\* in a session initialized with en two clicks have both committed es: the
\* second was made before the first had committed
C39_Witness ==
    /\ initPc = "done"
    /\ initLocal.initialLanguage = Str(EN)
    /\ calls[1].pc = "done"
    /\ calls[2].pc = "done"
    /\ \A c \in 3..MaxCalls : calls[c].pc = "idle"
    /\ setItemCalls = 2
    /\ lastSetItem = Str(ES)
    /\ currentLanguage = Str(ES)
    /\ translations = EsCatalog

\* C40: while the provider is loading (initializeLanguage has not committed),
\* the current language is en and t returns every non-empty string key
\* unchanged.
C40_UsableWhileLoading ==
    isLoading
    => /\ currentLanguage = Str(EN)
       /\ \A key \in StringKeys : t(key) = key

=============================================================================
